---- MODULE Spec2Model ----
(***************************************************************************)
(* Model of the NEO ingestion code: the entity constructors of models.py   *)
(* (NearEarthObject, CloseApproach, serialize) and the two loaders of      *)
(* extract.py (load_neos, load_approaches).                                *)
(*                                                                         *)
(* Python values are tagged records:                                       *)
(*   None            [t |-> "none"]                                        *)
(*   str             [t |-> "str", v |-> <<one-character strings>>]        *)
(*   float / number  [t |-> "num", n |-> value * Scale]   (fixed point)    *)
(*   float('nan')    [t |-> "nan"]                                         *)
(*   datetime        [t |-> "datetime", of |-> <<characters>>]             *)
(*   other object    [t |-> "obj", id |-> <<characters>>]                  *)
(* A dict is a function from key names to values; a missing key is a key   *)
(* outside its DOMAIN.  A call either returns ([ok |-> TRUE, obj |-> _])   *)
(* or raises ([ok |-> FALSE, exc |-> _]).                                  *)
(***************************************************************************)
EXTENDS Integers, Sequences, FiniteSets, TLC

VARIABLES
    info,        \* the keyword bag handed to a constructor (**info)
    phase,       \* position of the constructor harness
    made,        \* outcome of the last constructor call
    ser,         \* outcome of NearEarthObject.serialize()
    loader,      \* which loader is being called: "neos" / "approaches"
    file,        \* the input file at the path given to the loader
    pc,          \* position inside the loader call
    handleOpen,  \* TRUE while `infile` is open
    rows,        \* what the for loop iterates: reader / contents["data"]
    i,           \* index of the next row the for loop takes
    out,         \* the list being built (neos / approaches)
    diag,        \* number of diagnostics printed by the except branches
    exc          \* exception propagated to the caller, "" if none

vars == <<info, phase, made, ser, loader, file, pc, handleOpen, rows, i, out, diag, exc>>
ctorVars == <<info, phase, made, ser>>
loadVars == <<loader, file, pc, handleOpen, rows, i, out, diag, exc>>

----------------------------------------------------------------------------
(* Bounds *)

MaxStrLen == 3     \* longest numeric text enumerated for the constructors
MaxRows == 3       \* most data rows in an input file

----------------------------------------------------------------------------
(* Python values *)

None == [t |-> "none"]
NaN == [t |-> "nan"]
Txt(s) == [t |-> "str", v |-> s]
Num(x) == [t |-> "num", n |-> x]
Obj(s) == [t |-> "obj", id |-> s]
Absent == [t |-> "absent"]   \* marks a key left out when a bag is built

Return(o) == [ok |-> TRUE, obj |-> o]
Raise(e) == [ok |-> FALSE, exc |-> e]

RECURSIVE Pow10(_)
Pow10(k) == IF k <= 0 THEN 1 ELSE 10 * Pow10(k - 1)

\* fixed-point unit: a float x is stored as x * Scale
Scale == Pow10(MaxStrLen)

\* bool(x)
Truthy(x) ==
    CASE x.t = "none" -> FALSE
      [] x.t = "str" -> Len(x.v) > 0
      [] x.t = "num" -> x.n # 0
      [] OTHER -> TRUE

IsNaN(x) == x.t = "nan"
IsStr(x, s) == x.t = "str" /\ x.v = s

\* dict.get(key, default)
Get(d, k, default) == IF k \in DOMAIN d THEN d[k] ELSE default

----------------------------------------------------------------------------
(* float(): the decimal grammar  [-|+] (digits [. digits*] | . digits)     *)
(* Exponents, surrounding blanks, underscores and the words inf/nan are    *)
(* outside the alphabet the model enumerates.                              *)

Digit == {"0", "1", "2", "3", "4", "5", "6", "7", "8", "9"}
DigitVal(c) ==
    CASE c = "0" -> 0 [] c = "1" -> 1 [] c = "2" -> 2 [] c = "3" -> 3
      [] c = "4" -> 4 [] c = "5" -> 5 [] c = "6" -> 6 [] c = "7" -> 7
      [] c = "8" -> 8 [] c = "9" -> 9

Unsigned(s) == IF Len(s) > 0 /\ s[1] \in {"-", "+"} THEN Tail(s) ELSE s
DotsOf(s) == {k \in 1..Len(s) : s[k] = "."}
DigitsOf(s) == {k \in 1..Len(s) : s[k] \in Digit}

IsNumericText(s) ==
    LET b == Unsigned(s) IN
        /\ \A k \in 1..Len(b) : b[k] \in Digit \cup {"."}
        /\ Cardinality(DotsOf(b)) <= 1
        /\ Cardinality(DigitsOf(b)) >= 1

RECURSIVE IntVal(_)
IntVal(ds) ==
    IF Len(ds) = 0 THEN 0
    ELSE 10 * IntVal(SubSeq(ds, 1, Len(ds) - 1)) + DigitVal(ds[Len(ds)])

\* value * Scale of a text accepted by IsNumericText
DecimalValue(s) ==
    LET b == Unsigned(s)
        dot == IF DotsOf(b) = {} THEN Len(b) + 1 ELSE CHOOSE k \in DotsOf(b) : TRUE
        whole == SubSeq(b, 1, dot - 1)
        frac == SubSeq(b, dot + 1, Len(b))
        mag == IntVal(whole) * Scale + (IntVal(frac) * Scale) \div Pow10(Len(frac))
    IN  IF Len(s) > 0 /\ s[1] = "-" THEN 0 - mag ELSE mag

\* float(x)
Float(x) ==
    CASE x.t = "num" -> Return(x)
      [] x.t = "nan" -> Return(NaN)
      [] x.t = "str" -> IF IsNumericText(x.v) THEN Return(Num(DecimalValue(x.v)))
                        ELSE Raise("ValueError")
      [] OTHER -> Raise("TypeError")

----------------------------------------------------------------------------
(* helpers.cd_to_datetime: strptime(calendar_date, "%Y-%b-%d %H:%M")        *)

CalendarDate == <<"2","0","2","0","-","J","a","n","-","0","1"," ","0","0",":","0","0">>
BadDate == <<"s","o","o","n">>

cd_to_datetime(x) ==
    IF x.t # "str" THEN Raise("TypeError")
    ELSE IF x.v = CalendarDate THEN Return([t |-> "datetime", of |-> x.v])
    ELSE Raise("ValueError")

----------------------------------------------------------------------------
(* models.py *)

\* NearEarthObject.__init__: the diameter attribute
NeoDiameter(d) ==
    IF Truthy(Get(d, "diameter", None))
    THEN Float(Get(d, "diameter", None))
    ELSE Return(NaN)

\* variant: the flag is compared without regard to case
NeoHazardousAnyCase(d) ==
    IsStr(Get(d, "hazardous", None), <<"Y">>) \/ IsStr(Get(d, "hazardous", None), <<"y">>)

\* NearEarthObject.__init__: the hazardous attribute
NeoHazardous(d) ==
    IF IsStr(Get(d, "hazardous", None), <<"Y">>) THEN TRUE
    ELSE IF IsStr(Get(d, "hazardous", None), <<"N">>) THEN FALSE
    ELSE FALSE

\* NearEarthObject.__init__: the name attribute
NeoName(d) ==
    IF Truthy(Get(d, "name", None)) THEN Get(d, "name", None) ELSE None

NearEarthObject(d) ==
    LET diameter == NeoDiameter(d) IN
        IF ~diameter.ok THEN diameter
        ELSE Return([designation |-> Get(d, "designation", Txt(<<>>)),
                     name |-> NeoName(d),
                     diameter |-> diameter.obj,
                     hazardous |-> NeoHazardous(d),
                     approaches |-> <<>>])

\* variant: the name attribute is emitted as stored
serializeRawName(neo) ==
    [designation |-> neo.designation,
     name |-> neo.name,
     diameter_km |-> neo.diameter,
     potentially_hazardous |-> neo.hazardous]

\* NearEarthObject.serialize
serialize(neo) ==
    [designation |-> neo.designation,
     name |-> IF neo.name.t # "none" THEN neo.name ELSE Txt(<<>>),
     diameter_km |-> neo.diameter,
     potentially_hazardous |-> neo.hazardous]

\* CloseApproach.__init__: the time attribute
CaTime(d) ==
    LET time == Get(d, "time", None) IN
        IF Truthy(time) THEN cd_to_datetime(time) ELSE Return(time)

\* CloseApproach.__init__: the distance / velocity attributes
CaNumber(d, key) == Float(Get(d, key, NaN))

\* CloseApproach.__init__: the neo attribute
CaNeo(d) == Get(d, "neo", None)

CloseApproach(d) ==
    LET time == CaTime(d)
        distance == CaNumber(d, "distance")
        velocity == CaNumber(d, "velocity")
    IN  IF ~time.ok THEN time
        ELSE IF ~distance.ok THEN distance
        ELSE IF ~velocity.ok THEN velocity
        ELSE Return([designation |-> Get(d, "designation", Txt(<<>>)),
                     time |-> time.obj,
                     distance |-> distance.obj,
                     velocity |-> velocity.obj,
                     neo |-> CaNeo(d)])

----------------------------------------------------------------------------
(* Direct construction: a bag is drawn, a constructor is applied to it,    *)
(* and a constructed NearEarthObject may be serialized.                    *)

Alphabet == {"-", "0", "1", ".", "x"}
AllText == UNION {[1..k -> Alphabet] : k \in 0..MaxStrLen}

s433 == <<"4", "3", "3">>
s2015 == <<"2", "0", "1", "5", " ", "A", "B">>
sEros == <<"E", "r", "o", "s">>
Half == 5 * Pow10(MaxStrLen - 1)

\* the dict of the keys of r that are not marked Absent
Bag(r) == [k \in {k \in DOMAIN r : r[k] # Absent} |-> r[k]]

NeoBags ==
    {Bag([designation |-> des, name |-> nm, hazardous |-> hz, diameter |-> dm]) :
        des \in {Absent, Txt(s433)},
        nm \in {Absent, None, Txt(<<>>), Txt(sEros)},
        hz \in {Absent, None, Txt(<<>>), Txt(<<"Y">>), Txt(<<"N">>), Txt(<<"y">>)},
        dm \in {Absent, None} \cup {Txt(s) : s \in AllText}}

CaBags ==
    {Bag([designation |-> des, time |-> tm, distance |-> ds, velocity |-> vl,
          neo |-> ne, orbit_id |-> Txt(<<"7">>)]) :
        des \in {Absent, Txt(s433)},
        tm \in {Absent, Txt(<<>>), Txt(CalendarDate), Txt(BadDate)},
        ds \in {Absent, None, Num(Half)} \cup {Txt(s) : s \in AllText},
        vl \in {Absent, Txt(<<>>), Txt(<<"1">>), Txt(<<"x">>)},
        ne \in {Absent, None, Obj(s433)}}

NoResult == Raise("")
NoFile == [kind |-> "none", exists |-> FALSE]

CtorInit ==
    /\ info \in NeoBags \cup CaBags
    /\ phase = "bag"
    /\ made = NoResult
    /\ ser = None
    /\ loader = "none"
    /\ file = NoFile
    /\ pc = "idle"
    /\ handleOpen = FALSE
    /\ rows = <<>>
    /\ i = 0
    /\ out = <<>>
    /\ diag = 0
    /\ exc = ""

NewNearEarthObject ==
    /\ phase = "bag"
    /\ made' = NearEarthObject(info)
    /\ phase' = "neo"
    /\ UNCHANGED <<info, ser>>
    /\ UNCHANGED loadVars

NewCloseApproach ==
    /\ phase = "bag"
    /\ made' = CloseApproach(info)
    /\ phase' = "ca"
    /\ UNCHANGED <<info, ser>>
    /\ UNCHANGED loadVars

Serialize ==
    /\ phase = "neo"
    /\ made.ok
    /\ ser' = serialize(made.obj)
    /\ phase' = "serialized"
    /\ UNCHANGED <<info, made>>
    /\ UNCHANGED loadVars

CtorNext == NewNearEarthObject \/ NewCloseApproach \/ Serialize

CtorSpec == CtorInit /\ [][CtorNext]_vars

----------------------------------------------------------------------------
(* extract.py *)

Min(a, b) == IF a < b THEN a ELSE b

\* dict(zip(keys, values)): pairs up to the shorter length, a repeated key
\* keeps its last value
ZipDict(keys, values) ==
    LET n == Min(Len(keys), Len(values)) IN
        [k \in {keys[j] : j \in 1..n} |->
            values[CHOOSE j \in 1..n :
                      keys[j] = k /\ \A m \in 1..n : keys[m] = k => m <= j]]

\* csv.DictReader: blank lines are skipped; each remaining line becomes a
\* dict over the header, cells missing at the end of a short line are None
DictRow(header, line) ==
    [k \in {header[j] : j \in 1..Len(header)} |->
        LET j == CHOOSE m \in 1..Len(header) :
                    header[m] = k /\ \A q \in 1..Len(header) : header[q] = k => q <= m
        IN  IF j <= Len(line) THEN Txt(line[j]) ELSE None]

RECURSIVE DictReader(_, _)
DictReader(header, lines) ==
    IF Len(lines) = 0 THEN <<>>
    ELSE IF Len(Head(lines)) = 0 THEN DictReader(header, Tail(lines))
    ELSE <<DictRow(header, Head(lines))>> \o DictReader(header, Tail(lines))

\* the body of the try block of load_neos for one row
NeoOfRow(elem) ==
    IF ~({"pdes", "name", "pha", "diameter"} \subseteq DOMAIN elem)
    THEN Raise("KeyError")
    ELSE NearEarthObject([designation |-> elem["pdes"],
                          name |-> elem["name"],
                          hazardous |-> elem["pha"],
                          diameter |-> elem["diameter"]])

\* the body of the try block of load_approaches for one row
ApproachOfRow(contents, data) ==
    IF "fields" \notin DOMAIN contents THEN Raise("KeyError")
    ELSE LET cad_row == ZipDict(contents["fields"], data) IN
        IF ~({"des", "cd", "dist", "v_rel"} \subseteq DOMAIN cad_row)
        THEN Raise("KeyError")
        ELSE CloseApproach([designation |-> cad_row["des"],
                            time |-> cad_row["cd"],
                            distance |-> cad_row["dist"],
                            velocity |-> cad_row["v_rel"]])

\* variant: the handle is left as it is when the block is left
WithExitLeak(h) == h

\* the exit of the `with open(...) as infile` block: the handle is closed
WithExit(h) == FALSE

\* variant: a failed row discards what was collected so far
CollectAbort(list, r) == IF r.ok THEN Append(list, r.obj) ELSE <<>>

\* variant: a new entity is put in front of the list
CollectFront(list, r) == IF r.ok THEN <<r.obj>> \o list ELSE list

\* what the except / else branches do with the outcome r of one row
Collect(list, r) == IF r.ok THEN Append(list, r.obj) ELSE list
Printed(n, r) == IF r.ok THEN n ELSE n + 1

(* Input files *)

CsvHeaders == {<<"pdes", "name", "pha", "diameter">>, <<"pdes", "name", "pha">>}

CsvLines ==
    {<<s433, sEros, <<"Y">>, <<"1", ".", "5">>>>,
     <<s433, <<>>, <<"N">>, <<>>>>,
     <<s2015, <<>>, <<>>, <<"x">>>>,
     <<s2015, sEros, <<"N">>>>,
     <<>>}

SeqsUpTo(S, n) == UNION {[1..k -> S] : k \in 0..n}

\* undecodable = k > 0: reading the k-th line raises inside the reader
CsvFiles ==
    {[kind |-> "csv", exists |-> TRUE, header |-> h, lines |-> ls, undecodable |-> u] :
        h \in CsvHeaders, ls \in SeqsUpTo(CsvLines, MaxRows), u \in {0, 1}}

JsonFields == {<<"des", "cd", "dist", "v_rel">>, <<"des", "orbit_id", "cd", "dist">>}

JsonRows ==
    {<<Txt(s433), Txt(CalendarDate), Num(Half), Num(10 * Scale)>>,
     <<Txt(s433), Txt(CalendarDate), Txt(<<"1", ".", "5">>), Txt(<<"1">>)>>,
     <<Txt(s2015), Txt(BadDate), Txt(<<>>), Txt(<<"1">>)>>,
     <<Txt(s2015), Txt(<<>>), Txt(<<"1">>), None>>}

\* the top-level objects json.load can return for the model's files
JsonContents ==
    {ZipDict(<<"fields", "data">>, <<f, rs>>) :
        f \in JsonFields, rs \in SeqsUpTo(JsonRows, MaxRows)}
    \cup {ZipDict(<<"data">>, <<rs>>) : rs \in SeqsUpTo(JsonRows, MaxRows)}
    \cup {ZipDict(<<"fields">>, <<f>>) : f \in JsonFields}

JsonFiles ==
    {[kind |-> "json", exists |-> TRUE, wellformed |-> TRUE, contents |-> c] :
        c \in JsonContents}
    \cup {[kind |-> "json", exists |-> TRUE, wellformed |-> FALSE]}

\* the rows of the file the call was given
FileRows ==
    IF loader = "neos" THEN DictReader(file.header, file.lines)
    ELSE file.contents["data"]

Init ==
    /\ loader = "none"
    /\ file = NoFile
    /\ pc = "start"
    /\ handleOpen = FALSE
    /\ rows = <<>>
    /\ i = 0
    /\ out = <<>>
    /\ diag = 0
    /\ exc = ""
    /\ info = <<>>
    /\ phase = "idle"
    /\ made = NoResult
    /\ ser = None

\* the caller invokes load_neos(path) or load_approaches(path); f is the file
\* found at the path
Call(ld, f) ==
    /\ pc = "start"
    /\ loader' = ld
    /\ file' = f
    /\ pc' = "ready"
    /\ UNCHANGED <<handleOpen, rows, i, out, diag, exc>>
    /\ UNCHANGED ctorVars

call_load_neos ==
    /\ pc = "start"
    /\ \E f \in CsvFiles \cup {NoFile} : Call("neos", f)

call_load_approaches ==
    /\ pc = "start"
    /\ \E f \in JsonFiles \cup {NoFile} : Call("approaches", f)

\* open(path, 'r') fails: nothing was opened, the error reaches the caller
OpenFails ==
    /\ pc = "ready"
    /\ ~file.exists
    /\ pc' = "raised"
    /\ exc' = "FileNotFoundError"
    /\ UNCHANGED <<loader, file, handleOpen, rows, i, out, diag>>
    /\ UNCHANGED ctorVars

load_neos_open ==
    /\ pc = "ready"
    /\ loader = "neos"
    /\ file.exists
    /\ handleOpen' = TRUE
    /\ out' = <<>>
    /\ rows' = DictReader(file.header, file.lines)
    /\ i' = 1
    /\ pc' = "rows"
    /\ UNCHANGED <<loader, file, diag, exc>>
    /\ UNCHANGED ctorVars

\* the reader raises while fetching the next line: outside the try block
load_neos_reader_error ==
    /\ pc = "rows"
    /\ loader = "neos"
    /\ file.undecodable > 0
    /\ i = file.undecodable
    /\ i <= Len(rows)
    /\ handleOpen' = WithExit(handleOpen)
    /\ pc' = "raised"
    /\ exc' = "UnicodeDecodeError"
    /\ UNCHANGED <<loader, file, rows, i, out, diag>>
    /\ UNCHANGED ctorVars

load_neos_row ==
    /\ pc = "rows"
    /\ loader = "neos"
    /\ i <= Len(rows)
    /\ i # file.undecodable
    /\ \E r \in {NeoOfRow(rows[i])} :
        /\ out' = Collect(out, r)
        /\ diag' = Printed(diag, r)
    /\ i' = i + 1
    /\ UNCHANGED <<loader, file, pc, handleOpen, rows, exc>>
    /\ UNCHANGED ctorVars

load_neos_return ==
    /\ pc = "rows"
    /\ loader = "neos"
    /\ i > Len(rows)
    /\ handleOpen' = WithExit(handleOpen)
    /\ pc' = "done"
    /\ UNCHANGED <<loader, file, rows, i, out, diag, exc>>
    /\ UNCHANGED ctorVars

load_approaches_open ==
    /\ pc = "ready"
    /\ loader = "approaches"
    /\ file.exists
    /\ handleOpen' = TRUE
    /\ out' = <<>>
    /\ pc' = "parse"
    /\ UNCHANGED <<loader, file, rows, i, diag, exc>>
    /\ UNCHANGED ctorVars

\* json.load(infile), then the evaluation of contents["data"]
load_approaches_parse ==
    /\ pc = "parse"
    /\ IF ~file.wellformed
       THEN /\ handleOpen' = WithExit(handleOpen)
            /\ pc' = "raised"
            /\ exc' = "JSONDecodeError"
            /\ UNCHANGED <<rows, i>>
       ELSE IF "data" \notin DOMAIN file.contents
       THEN /\ handleOpen' = WithExit(handleOpen)
            /\ pc' = "raised"
            /\ exc' = "KeyError"
            /\ UNCHANGED <<rows, i>>
       ELSE /\ pc' = "rows"
            /\ rows' = file.contents["data"]
            /\ i' = 1
            /\ UNCHANGED <<handleOpen, exc>>
    /\ UNCHANGED <<loader, file, out, diag>>
    /\ UNCHANGED ctorVars

load_approaches_row ==
    /\ pc = "rows"
    /\ loader = "approaches"
    /\ i <= Len(rows)
    /\ \E r \in {ApproachOfRow(file.contents, rows[i])} :
        /\ out' = Collect(out, r)
        /\ diag' = Printed(diag, r)
    /\ i' = i + 1
    /\ UNCHANGED <<loader, file, pc, handleOpen, rows, exc>>
    /\ UNCHANGED ctorVars

load_approaches_return ==
    /\ pc = "rows"
    /\ loader = "approaches"
    /\ i > Len(rows)
    /\ handleOpen' = WithExit(handleOpen)
    /\ pc' = "done"
    /\ UNCHANGED <<loader, file, rows, i, out, diag, exc>>
    /\ UNCHANGED ctorVars

Next ==
    \/ call_load_neos
    \/ call_load_approaches
    \/ OpenFails
    \/ load_neos_open
    \/ load_neos_reader_error
    \/ load_neos_row
    \/ load_neos_return
    \/ load_approaches_open
    \/ load_approaches_parse
    \/ load_approaches_row
    \/ load_approaches_return

Spec == Init /\ [][Next]_vars

\* a started call keeps running: the loaders are straight-line synchronous code
FairSpec == Spec /\ WF_vars(Next)

----------------------------------------------------------------------------
(* Properties of the loaders (Spec, FairSpec) *)

\* the file can be opened and has the top-level structure the loader reads
Loadable ==
    /\ file.exists
    /\ loader = "neos" => file.undecodable = 0
    /\ loader = "approaches" => file.wellformed /\ "data" \in DOMAIN file.contents

RowOutcome(k) ==
    IF loader = "neos" THEN NeoOfRow(FileRows[k])
    ELSE ApproachOfRow(file.contents, FileRows[k])

FailedRows == {k \in 1..Len(FileRows) : ~RowOutcome(k).ok}

\* the designation value the source row k carries (`pdes` / `des`)
SourceDesignation(k) ==
    IF loader = "neos" THEN FileRows[k]["pdes"]
    ELSE ZipDict(file.contents["fields"], FileRows[k])["des"]

RECURSIVE SurvivorDesignations(_)
SurvivorDesignations(k) ==
    IF k = 0 THEN <<>>
    ELSE IF RowOutcome(k).ok
         THEN Append(SurvivorDesignations(k - 1), SourceDesignation(k))
         ELSE SurvivorDesignations(k - 1)

\* C1: when exactly one of the N rows of a loadable file raises, the call
\* never raises to the caller and returns exactly N-1 entities, having
\* taken every row and printed one diagnostic.
C1_OneBadRowSkipped ==
    (Loadable /\ Cardinality(FailedRows) = 1) =>
        /\ pc # "raised"
        /\ pc = "done" => /\ Len(out) = Len(FileRows) - 1
                          /\ i = Len(FileRows) + 1
                          /\ diag = 1

C1_Witness ==
    /\ pc = "done"
    /\ loader = "neos"
    /\ Loadable
    /\ Len(FileRows) = 3
    /\ FailedRows = {2}
    /\ Len(out) = 2

\* C2: a CSV file whose header has no `diameter` column loads like the same
\* file with an empty `diameter` in every row: each row yields a NEO with
\* the unknown diameter and the row's designation, name and hazardous flag.
C2_MissingColumnAsEmpty ==
    (loader = "neos" /\ pc = "done" /\ "diameter" \notin DOMAIN DictRow(file.header, <<>>)) =>
        out = [k \in 1..Len(FileRows) |->
                 NearEarthObject([designation |-> FileRows[k]["pdes"],
                                  name |-> FileRows[k]["name"],
                                  hazardous |-> FileRows[k]["pha"],
                                  diameter |-> Txt(<<>>)]).obj]

StructuralError ==
    IF ~file.exists THEN TRUE
    ELSE IF loader # "approaches" THEN FALSE
    ELSE IF ~file.wellformed THEN TRUE
    ELSE "fields" \notin DOMAIN file.contents \/ "data" \notin DOMAIN file.contents

\* C4: a load of a file that cannot be opened, or of a JSON file whose top
\* level lacks `fields` or `data`, never returns a collection.
C4_StructuralErrorPropagates == StructuralError => pc # "done"

C10_HandleClosed ==
    /\ handleOpen ~> (pc \in {"done", "raised"} /\ ~handleOpen)
    /\ [](pc \in {"done", "raised"} => ~handleOpen)

C10_Witness ==
    /\ pc = "raised"
    /\ exc = "KeyError"
    /\ ~handleOpen
    /\ out = <<>>

----------------------------------------------------------------------------
(* Properties of the constructors (CtorSpec) *)

HasText(key) == key \in DOMAIN info /\ info[key].t = "str"
\* the source value is missing or the empty string
Blank(key) == key \notin DOMAIN info \/ (HasText(key) /\ Len(info[key].v) = 0)
NonNumeric(key) == HasText(key) /\ Len(info[key].v) > 0 /\ ~IsNumericText(info[key].v)
Numeric(key) == HasText(key) /\ IsNumericText(info[key].v)
Covered(key) == Blank(key) \/ NonNumeric(key) \/ Numeric(key)
Expected(key) == IF Numeric(key) THEN Num(DecimalValue(info[key].v)) ELSE NaN

\* C3: an empty, missing or non-numeric source value of diameter, distance
\* or velocity gives a constructed entity holding the unknown sentinel, and
\* a numeric text gives its parsed value.
C3_NumericFields ==
    /\ (phase = "neo" /\ Covered("diameter")) =>
          made.ok /\ made.obj.diameter = Expected("diameter")
    /\ (phase = "ca" /\ Covered("distance") /\ Covered("velocity")
          /\ CaTime(info).ok) =>
          /\ made.ok
          /\ made.obj.distance = Expected("distance")
          /\ made.obj.velocity = Expected("velocity")

\* C5: hazardous is a boolean, true exactly when the source value is 'Y'.
C5_HazardousIffY ==
    (phase = "neo" /\ made.ok) =>
        /\ made.obj.hazardous \in BOOLEAN
        /\ made.obj.hazardous <=> (HasText("hazardous") /\ info["hazardous"].v = <<"Y">>)

C5_Witness ==
    /\ phase = "neo"
    /\ made.ok
    /\ made.obj.hazardous
    /\ HasText("diameter")

\* C7: a constructed NearEarthObject holds a non-negative diameter or the
\* unknown sentinel.
C7_DiameterNonNegative ==
    (phase = "neo" /\ made.ok) =>
        \/ IsNaN(made.obj.diameter)
        \/ made.obj.diameter.t = "num" /\ made.obj.diameter.n >= 0

\* C8: a new NearEarthObject has no approaches and a new CloseApproach has
\* neo None, whatever keys the bag carries.
C8_UnlinkedAtConstruction ==
    /\ (phase = "neo" /\ made.ok) => made.obj.approaches = <<>>
    /\ (phase = "ca" /\ made.ok) => made.obj.neo.t = "none"

\* C9: with an absent or empty source name the NEO's name is None and its
\* serialized name is the empty string; with a non-empty name both are that
\* string.
C9_NameProjection ==
    phase = "serialized" =>
        IF HasText("name") /\ Len(info["name"].v) > 0
        THEN made.obj.name = info["name"] /\ ser.name = info["name"]
        ELSE made.obj.name.t = "none" /\ ser.name = Txt(<<>>)

C9_Witness ==
    /\ phase = "serialized"
    /\ HasText("name")
    /\ Len(info["name"].v) = 0
    /\ ser.name = Txt(<<>>)

====
